---- MODULE Spec2Model ----
(***************************************************************************)
(* Model of the log-observability proof of concept:                        *)
(*   - src/src/ingest_logs.py   : incremental ingestion into the vector    *)
(*                                store, with the ingestion tracker file   *)
(*   - src/src/rag_query_log.py : threshold retriever and query_log        *)
(*                                                                         *)
(* A source file is identified by a number, in the order in which the      *)
(* files came into the input directory.  The order in which glob lists     *)
(* them is the file system's: it stays as it is while no file is added.    *)
(* The generator of src/src/log-generator.py   *)
(* is a script of its own that writes into the same directory at any time. *)
(* The vector store, the text splitter, the                                *)
(* embedding provider and the chat model are external collaborators: what  *)
(* they return is an input, what the repository does with it is modelled.  *)
(***************************************************************************)
EXTENDS Integers, Sequences, FiniteSets, Bags, TLC

\* ------------------------------------------------------------------ bounds
MaxFiles    == 1   \* source files in the input directory at the start
MaxRecords  == 3   \* log records in one source file
MaxParts    == 2   \* chunks the text splitter cuts one document into
MaxRuns     == 2   \* successive calls of ingest_logs
MaxFailures == 1   \* calls into the vector store that raise
MaxGenerated == 1  \* calls of generate_logs_for_day
MaxHits     == 3   \* points of the collection ranked for one query
MaxScore    == 2   \* similarity scores are 0..MaxScore
MaxK        == 3   \* the k argument of query_log is 1..MaxK
MaxQueries  == 2   \* calls of query_log
MaxOver     == 1   \* turns a history may hold beyond CHAT_HISTORY_LIMIT
MaxN        == 5   \* records of the file given to the document builder
MaxGroup    == 20  \* the builder's group size is 1..MaxGroup
MaxBatch    == 3   \* the writer's batch size is 1..MaxBatch
MaxRecLines == 8   \* text lines json.dumps(indent=2) gives for one record
LineLen     == 100 \* characters of one text line, its newline included

\* --------------------------------------------------------------- settings
\* Both are read from the environment when the module is loaded; the model
\* runs under the configuration BATCH_SIZE=2, LOG_BATCH=2.
BATCH_SIZE == 2
LOG_BATCH  == 2

COLLECTION == "aks_logs"    \* the collection_name argument
None       == "None"        \* Python's None
Raised     == "raised"      \* the call ended by an uncaught exception
Running    == "running"     \* the call has not returned yet

Min(a, b) == IF a < b THEN a ELSE b

\* ------------------------------------------------------------ source files
\* What a source file holds decides what lines 92-105 do with it:
\*   "malformed"    text that is not JSON: json.load raises JSONDecodeError
\*   "undecodable"  bytes that are not text: json.load raises
\*                  UnicodeDecodeError
\*   "not_list"     JSON that is no sequence (an object with members, a
\*                  number, null): len(logs) or logs[i:i+LOG_BATCH] raises
\*                  TypeError
\*   "json"         a list of nrec records
\* ver counts how often generate_logs_for_day has opened the file for
\* writing: every rewrite gives it new records.  A file that is open for
\* writing and not yet written is empty or cut short: it is "malformed".
MalformedFile   == [kind |-> "malformed", nrec |-> 0, ver |-> 0]
UndecodableFile == [kind |-> "undecodable", nrec |-> 0, ver |-> 0]
NotAListFile    == [kind |-> "not_list", nrec |-> 0, ver |-> 0]
FileContents ==
    {MalformedFile, UndecodableFile, NotAListFile}
    \cup [kind : {"json"}, nrec : 0..MaxRecords, ver : {0}]

RECURSIVE SeqsUpTo(_, _)
SeqsUpTo(S, n) ==
    IF n = 0 THEN {<<>>}
    ELSE LET shorter == SeqsUpTo(S, n - 1)
         IN  shorter \cup {Append(s, x) : s \in {t \in shorter : Len(t) = n - 1}, x \in S}

VARIABLES
    input_logs,      \* the input directory: sequence of file contents
    parts,           \* chunks the text splitter cuts every document into
    collections,     \* names of the collections the vector store holds
    n_created,       \* how many times create_collection was called
    tracker_file,    \* content of ingested_files.json (set of file ids)
    points,          \* bag of chunks stored in the collection
    pc,              \* position of ingest_logs
    run,             \* number of calls of ingest_logs begun
    ingested_files,  \* the local set loaded at line 85
    log_files,       \* line 80: the files of the glob result not yet visited
    idx,             \* line 87: log_file, the file the loop is at (0: none)
    chunks,          \* line 108: chunks of the file the loop is at
    i,               \* the batch loop's i (0-based offset into chunks)
    events,          \* what the current call has done so far, in order
    ret,             \* what the last call returned
    failures,        \* vector-store calls that raised so far
    prev,            \* state left by the call before the current one
    n_generated,     \* calls of generate_logs_for_day so far
    dirty,           \* the directory was written since the last call began
    g_pc,            \* position of generate_logs_for_day
    g_file,          \* the file generate_logs_for_day has open (0: none)
    listing,         \* the files in the order the file system lists them
    hits,            \* the collection ranked by similarity to the query
    q_pc,            \* position of query_log
    top_k,           \* query_log's k
    threshold,       \* query_log's threshold
    docs_and_scores, \* line 64: what the similarity search returned
    filtered_docs,   \* line 65: what the retriever returns
    response,        \* line 88: what the chain returned
    llm_calls,       \* calls of the chat model so far
    q_calls,         \* calls of query_log so far
    q_ret,           \* what query_log returned: <<answer, source documents>>
    history_arg,     \* the chat_history argument of the current call
    chat_history,    \* line 78: the local chat_history
    q_last,          \* the call of query_log before the current one
    b_pc,            \* position of the build-split-write pipeline of one file
    b_n,             \* records of the file
    b_G,             \* group size (LOG_BATCH)
    b_B,             \* batch size (BATCH_SIZE)
    b_lines,         \* text lines per record
    b_docs,          \* lines 101-105: docs
    b_chunks,        \* line 108: chunks
    b_i,             \* line 113: the batch loop's i
    b_batches        \* lines 114-115: the batches add_documents took, in order

gvars == <<n_generated, dirty, g_pc, g_file, listing>>

lvars == <<log_files, chunks>>

ivars == <<input_logs, parts, collections, n_created, tracker_file, points, pc, run,
           ingested_files, idx, i, events, ret, failures, prev, gvars, lvars>>

hvars == <<history_arg, chat_history, q_last>>

qvars == <<hits, q_pc, top_k, threshold, docs_and_scores, filtered_docs, response,
           llm_calls, q_calls, q_ret, hvars>>

bvars == <<b_pc, b_n, b_G, b_B, b_lines, b_docs, b_chunks, b_i, b_batches>>

vars == <<ivars, qvars, bvars>>

\* ------------------------------------------------------- document builder
CeilDiv(n, d) == (n + d - 1) \div d

\* BuildDocs with the range running one step too far
BuildDocs_OneTooMany(f) ==
    LET n == input_logs[f].nrec
    IN  [j \in 1..CeilDiv(n + 1, LOG_BATCH) |->
            [source |-> f,
             ver    |-> input_logs[f].ver,
             first  |-> (j - 1) * LOG_BATCH + 1,
             last   |-> Min(j * LOG_BATCH, n)]]

\* BuildDocsOf with the slice logs[i:i+G-1]
BuildDocsOf_ShortSlice(f, v, n, G) ==
    [j \in 1..CeilDiv(n, G) |->
        [source |-> f,
         ver    |-> v,
         first  |-> (j - 1) * G + 1,
         last   |-> Min(j * G - 1, n)]]

\* lines 101-105 for a file f, in its version v, of n records and a group
\* size G: document j (1-based) is made of logs[(j-1)*G : j*G], here the
\* 1-based records first..last of that version, and carries metadata
\* {"source": f}
BuildDocsOf(f, v, n, G) ==
    [j \in 1..CeilDiv(n, G) |->
        [source |-> f,
         ver    |-> v,
         first  |-> (j - 1) * G + 1,
         last   |-> Min(j * G, n)]]

\* lines 101-105: one Document per LOG_BATCH consecutive records
BuildDocs(f) == BuildDocsOf(f, input_logs[f].ver, input_logs[f].nrec, LOG_BATCH)

\* line 108: text_splitter.split_documents(docs): every document is cut
\* into per_doc chunks, which inherit its metadata and keep document order
SplitDocuments(docs, per_doc) ==
    [c \in 1..(Len(docs) * per_doc) |->
        [source |-> docs[((c - 1) \div per_doc) + 1].source,
         ver    |-> docs[((c - 1) \div per_doc) + 1].ver,
         doc    |-> ((c - 1) \div per_doc) + 1,
         part   |-> ((c - 1) % per_doc) + 1]]

Chunks(f) == SplitDocuments(BuildDocs(f), parts)

\* BatchAtOf with the slice chunks[i:i + B + 1]
BatchAtOf_Overlapping(cs, k, B) ==
    SubSeq(cs, k + 1, Min(k + B + 1, Len(cs)))

\* line 114 for a batch size B: batch = chunks[i:i + B]
BatchAtOf(cs, k, B) == SubSeq(cs, k + 1, Min(k + B, Len(cs)))

\* line 114: batch = chunks[i:i + BATCH_SIZE]
BatchAt(cs, k) == BatchAtOf(cs, k, BATCH_SIZE)

\* ----------------------------------------------------------- text splitter
\* lines 29-30: the configured chunk size and overlap
CHUNK_SIZE == 1000
CHUNK_OVERLAP == 100

\* line 44: the sizes the splitter is built with
SPLITTER_CHUNK_SIZE == 2000
SPLITTER_CHUNK_OVERLAP == 100

\* RecursiveCharacterTextSplitter(chunk_size=size, chunk_overlap=overlap) on
\* a text of nl lines of LineLen characters: lines are packed while the
\* chunk stays within size; the next chunk starts again with the last lines
\* of the previous one that fit in overlap.  The result gives, per chunk,
\* the 1-based lines first..last it holds.
SplitText(nl, size, overlap) ==
    LET per   == size \div LineLen
        keep  == Min(overlap \div LineLen, per - 1)
        step  == per - keep
        count == IF nl = 0 THEN 0
                 ELSE IF nl <= per THEN 1
                 ELSE 1 + CeilDiv(nl - per, step)
    IN  [c \in 1..count |->
            [first |-> (c - 1) * step + 1,
             last  |-> Min((c - 1) * step + per, nl)]]

\* the chunks of document d (its index in docs), with the metadata of the
\* document, their length and their overlap with the chunk before
ChunksOfDoc(docs, d, rec_lines, size, overlap) ==
    LET nl == (docs[d].last - docs[d].first + 1) * rec_lines
        cs == SplitText(nl, size, overlap)
    IN  [c \in DOMAIN cs |->
            [source  |-> docs[d].source,
             ver     |-> docs[d].ver,
             doc     |-> d,
             part    |-> c,
             length  |-> (cs[c].last - cs[c].first + 1) * LineLen,
             overlap |-> IF c = 1 THEN 0
                         ELSE (cs[c - 1].last - cs[c].first + 1) * LineLen]]

RECURSIVE SplitFrom(_, _, _, _, _)
SplitFrom(docs, d, rec_lines, size, overlap) ==
    IF d > Len(docs) THEN <<>>
    ELSE ChunksOfDoc(docs, d, rec_lines, size, overlap)
         \o SplitFrom(docs, d + 1, rec_lines, size, overlap)

\* line 108: text_splitter.split_documents(docs), with the splitter of
\* line 44
split_documents(docs, rec_lines) ==
    SplitFrom(docs, 1, rec_lines, SPLITTER_CHUNK_SIZE, SPLITTER_CHUNK_OVERLAP)

\* line 113: range(0, len(chunks), BATCH_SIZE)
BatchOffsetsOf(cs) == {m \in 0..(Len(cs) - 1) : m % BATCH_SIZE = 0}

\* line 113 for the chunks file f gives as it is now
BatchOffsets(f) == BatchOffsetsOf(Chunks(f))

Range(s) == {s[k] : k \in DOMAIN s}

Event(op, f, arg) == [op |-> op, file |-> f, arg |-> arg]

NoResponse == [result |-> None, source_documents |-> <<>>]

\* before the first call of ingest_logs
NoPrev == [ret |-> Running, tracker |-> {}, npoints |-> 0, failed |-> 0,
           cause |-> "none", dirty |-> FALSE]

\* the build-split-write pipeline is not exercised
BuildOff ==
    /\ b_pc = "off"
    /\ b_n = 0
    /\ b_G = 1
    /\ b_B = 1
    /\ b_lines = 1
    /\ b_docs = <<>>
    /\ b_chunks = <<>>
    /\ b_i = 0
    /\ b_batches = <<>>

\* chat_history=None, the default of line 75
NoHistory == [given |-> FALSE, turns |-> <<>>]

\* no call of query_log yet
NoCall == [k |-> 0, threshold |-> 0, history |-> NoHistory, result |-> None,
           ret |-> None]

\* ------------------------------------------------------------------- Init
Init ==
    /\ input_logs \in SeqsUpTo(FileContents, MaxFiles)
    /\ parts \in 1..MaxParts
    /\ collections = {}
    /\ n_created = 0
    /\ tracker_file = {}
    /\ points = EmptyBag
    /\ pc = "idle"
    /\ run = 0
    /\ ingested_files = {}
    /\ idx = 0
    /\ i = 0
    /\ events = <<>>
    /\ ret = None
    /\ failures = 0
    /\ prev = NoPrev
    /\ n_generated = 0
    /\ dirty = FALSE
    /\ g_pc = "idle"
    /\ g_file = 0
    /\ listing = [k \in 1..Len(input_logs) |-> k]
    /\ log_files = <<>>
    /\ chunks = <<>>
    /\ hits = <<>>
    /\ q_pc = "idle"
    /\ top_k = 0
    /\ threshold = 0
    /\ docs_and_scores = <<>>
    /\ filtered_docs = <<>>
    /\ response = NoResponse
    /\ llm_calls = 0
    /\ q_calls = 0
    /\ q_ret = None
    /\ history_arg = NoHistory
    /\ chat_history = <<>>
    /\ q_last = NoCall
    /\ BuildOff

\* line 63: does the collection already exist
CollectionExists(name) == name \in collections

\* The file whose batch write raised in the call recorded by evs (0: none)
FailedFile(evs) ==
    IF \E k \in DOMAIN evs : evs[k].op = "raise"
    THEN (CHOOSE e \in Range(evs) : e.op = "raise").file
    ELSE 0

\* The step that ended the call recorded by evs with an exception: a
\* collection, store or write failure is the last thing the call recorded;
\* an exception of lines 92-103 is logged by nobody
AbortCause(r, evs) ==
    IF r # Raised \/ evs = <<>> THEN "none"
    ELSE IF evs[Len(evs)].op \in {"ensure_raise", "vs_ctor_raise", "raise"}
         THEN evs[Len(evs)].op
         ELSE "file_raise"

\* ----------------------------------------------------------- ingest_logs
\* line 73: ingest_logs(collection_name) is called
Begin ==
    /\ pc = "idle"
    /\ run < MaxRuns
    /\ run' = run + 1
    /\ prev' = [ret     |-> IF run = 0 THEN Running ELSE ret,
                tracker |-> tracker_file,
                npoints |-> BagCardinality(points),
                failed  |-> FailedFile(events),
                cause   |-> AbortCause(ret, events),
                dirty   |-> dirty]
    /\ dirty' = FALSE
    /\ events' = <<>>
    /\ ret' = Running
    /\ pc' = "ensure"
    /\ idx' = 0
    /\ i' = 0
    /\ ingested_files' = {}
    /\ log_files' = <<>>
    /\ chunks' = <<>>
    /\ UNCHANGED <<qvars, bvars, n_generated, g_pc, g_file, listing, parts, input_logs, collections,
                   n_created, tracker_file, points, failures>>

\* create_collection_if_not_exists without the existence test of line 63:
\* the collection is created anew, and emptied, on every call
create_collection_Recreates ==
    /\ pc = "ensure"
    /\ collections' = collections \cup {COLLECTION}
    /\ n_created' = n_created + 1
    /\ points' = EmptyBag
    /\ events' = Append(events, Event("ensure", 0, "created"))
    /\ pc' = "glob"
    /\ UNCHANGED <<qvars, bvars, gvars, lvars, parts, input_logs, tracker_file, run, ingested_files, idx, i,
                   ret, failures, prev>>

\* lines 62-70, called at line 75: create the collection only if absent
create_collection_if_not_exists ==
    /\ pc = "ensure"
    /\ IF CollectionExists(COLLECTION)
       THEN /\ UNCHANGED <<collections, n_created>>
            /\ events' = Append(events, Event("ensure", 0, "exists"))
       ELSE /\ collections' = collections \cup {COLLECTION}
            /\ n_created' = n_created + 1
            /\ events' = Append(events, Event("ensure", 0, "created"))
    /\ pc' = "glob"
    /\ UNCHANGED <<qvars, bvars, gvars, lvars, parts, input_logs, tracker_file, points, run, ingested_files, idx, i,
                   ret, failures, prev>>

\* lines 63-64: the vector store is unreachable or the creation fails; the
\* exception is not caught anywhere in ingest_logs
create_collection_raises ==
    /\ pc = "ensure"
    /\ failures < MaxFailures
    /\ failures' = failures + 1
    /\ events' = Append(events, Event("ensure_raise", 0, "error"))
    /\ ret' = Raised
    /\ pc' = "idle"
    /\ UNCHANGED <<qvars, bvars, gvars, lvars, parts, input_logs, collections, n_created, tracker_file, points, run,
                   ingested_files, idx, i, prev>>

\* line 78: QdrantVectorStore(...) checks the collection over the network
\* and raises; nothing in ingest_logs catches it
QdrantVectorStoreRaises ==
    /\ pc = "glob"
    /\ failures < MaxFailures
    /\ failures' = failures + 1
    /\ events' = Append(events, Event("vs_ctor_raise", 0, "error"))
    /\ ret' = Raised
    /\ pc' = "idle"
    /\ UNCHANGED <<qvars, bvars, gvars, lvars, parts, input_logs, collections, n_created, tracker_file,
                   points, run, ingested_files, idx, i, prev>>

\* load_ingested_log_files that never finds the tracker file
load_ingested_log_files_Empty == {}

\* lines 47-51
load_ingested_log_files == tracker_file

\* line 87: the for loop takes the next file of log_files, or is over
NextFile ==
    IF log_files = <<>>
    THEN idx' = 0 /\ log_files' = <<>>
    ELSE idx' = Head(log_files) /\ log_files' = Tail(log_files)

\* lines 78-87: the vector store object is built; glob lists the files that
\* are in the input directory now, in the file system's order; with no file, log an error and return (None); otherwise load
\* the tracker and enter the loop at the first file listed
Discover ==
    /\ pc = "glob"
    /\ IF Len(input_logs) = 0
       THEN /\ events' = Append(events, Event("no_files", 0, "error"))
            /\ ret' = None
            /\ pc' = "idle"
            /\ UNCHANGED <<ingested_files, idx, log_files>>
       ELSE /\ ingested_files' = load_ingested_log_files
            /\ events' = Append(events, Event("load", 0, "info"))
            /\ idx' = Head(listing)
            /\ log_files' = Tail(listing)
            /\ pc' = "loop"
            /\ UNCHANGED ret
    /\ UNCHANGED <<qvars, bvars, gvars, chunks, parts, input_logs, collections, n_created, tracker_file, points, run,
                   i, failures, prev>>

\* lines 88-90: the file is in the set loaded at the start of the call
SkipIngested ==
    /\ pc = "loop"
    /\ idx # 0
    /\ idx \in ingested_files
    /\ events' = Append(events, Event("skip", idx, "info"))
    /\ NextFile
    /\ UNCHANGED <<qvars, bvars, gvars, chunks, parts, input_logs, collections, n_created, tracker_file, points, pc, run,
                   ingested_files, i, ret, failures, prev>>

\* lines 93-98: json.load raises JSONDecodeError; log an error, next file
ParseError ==
    /\ pc = "loop"
    /\ idx # 0
    /\ idx \notin ingested_files
    /\ input_logs[idx].kind = "malformed"
    /\ events' = Append(events, Event("parse_error", idx, "error"))
    /\ NextFile
    /\ UNCHANGED <<qvars, bvars, gvars, chunks, parts, input_logs, collections, n_created, tracker_file, points, pc, run,
                   ingested_files, i, ret, failures, prev>>

\* lines 92-103: json.load raises UnicodeDecodeError (line 95), or the value
\* read is no sequence and len(logs) or the slice raises TypeError (lines
\* 102-103); `except json.JSONDecodeError` catches neither, so the call
\* ends here
FileRaises ==
    /\ pc = "loop"
    /\ idx # 0
    /\ idx \notin ingested_files
    /\ input_logs[idx].kind \in {"undecodable", "not_list"}
    /\ ret' = Raised
    /\ pc' = "idle"
    /\ UNCHANGED <<qvars, bvars, gvars, lvars, parts, input_logs, collections, n_created, tracker_file,
                   points, run, ingested_files, idx, i, events, failures, prev>>

\* ProcessFile with the mark placed before the batch loop
ProcessFile_MarkBeforeWrite ==
    /\ pc = "loop"
    /\ idx # 0
    /\ idx \notin ingested_files
    /\ input_logs[idx].kind = "json"
    /\ chunks' = Chunks(idx)
    /\ IF Len(Chunks(idx)) = 0
       THEN /\ events' = Append(events, Event("no_chunks", idx, "warning"))
            /\ NextFile
            /\ UNCHANGED <<pc, i, tracker_file>>
       ELSE /\ events' = Append(events, Event("parsed", idx, "info"))
            /\ tracker_file' = tracker_file \cup {idx}
            /\ i' = 0
            /\ pc' = "upsert"
            /\ UNCHANGED <<idx, log_files>>
    /\ UNCHANGED <<qvars, bvars, gvars, parts, input_logs, collections, n_created, points, run,
                   ingested_files, ret, failures, prev>>

\* lines 93-111 and 120-121: the file is read as it is now and parses;
\* build the documents, split them; with no chunk log a warning and go to
\* the next file, otherwise enter the batch loop with these chunks
ProcessFile ==
    /\ pc = "loop"
    /\ idx # 0
    /\ idx \notin ingested_files
    /\ input_logs[idx].kind = "json"
    /\ chunks' = Chunks(idx)
    /\ IF Len(Chunks(idx)) = 0
       THEN /\ events' = Append(events, Event("no_chunks", idx, "warning"))
            /\ NextFile
            /\ UNCHANGED <<pc, i>>
       ELSE /\ events' = Append(events, Event("parsed", idx, "info"))
            /\ i' = 0
            /\ pc' = "upsert"
            /\ UNCHANGED <<idx, log_files>>
    /\ UNCHANGED <<qvars, bvars, gvars, parts, input_logs, collections, n_created, tracker_file, points, run,
                   ingested_files, ret, failures, prev>>

\* line 115 in the vector store: langchain's add_documents gives every
\* document a fresh point id, so a batch always adds its chunks
Upsert(store, batch) == store (+) SetToBag(Range(batch))

\* AddDocuments that sleeps only when another batch follows
AddDocuments_SleepBetweenOnly ==
    /\ pc = "upsert"
    /\ points' = Upsert(points, BatchAt(chunks, i))
    /\ events' = Append(events, Event("upsert", idx, i))
    /\ pc' = IF i + BATCH_SIZE < Len(chunks) THEN "sleep" ELSE "save"
    /\ UNCHANGED <<qvars, bvars, gvars, lvars, parts, input_logs, collections, n_created, tracker_file, run,
                   ingested_files, idx, i, ret, failures, prev>>

\* lines 114-115: vector_store.add_documents(batch) returns
AddDocuments ==
    /\ pc = "upsert"
    /\ points' = Upsert(points, BatchAt(chunks, i))
    /\ events' = Append(events, Event("upsert", idx, i))
    /\ pc' = "sleep"
    /\ UNCHANGED <<qvars, bvars, gvars, lvars, parts, input_logs, collections, n_created, tracker_file, run,
                   ingested_files, idx, i, ret, failures, prev>>

\* AddDocumentsRaises with the exception swallowed inside the batch loop
AddDocumentsRaises_Swallowed ==
    /\ pc = "upsert"
    /\ failures < MaxFailures
    /\ failures' = failures + 1
    /\ events' = Append(events, Event("raise", idx, i))
    /\ pc' = "sleep"
    /\ UNCHANGED <<qvars, bvars, gvars, lvars, parts, input_logs, collections, n_created, tracker_file, points, run,
                   ingested_files, idx, i, ret, prev>>

\* line 115: vector_store.add_documents(batch) raises; nothing in
\* ingest_logs catches it, so the call ends here
AddDocumentsRaises ==
    /\ pc = "upsert"
    /\ failures < MaxFailures
    /\ failures' = failures + 1
    /\ events' = Append(events, Event("raise", idx, i))
    /\ ret' = Raised
    /\ pc' = "idle"
    /\ UNCHANGED <<qvars, bvars, gvars, lvars, parts, input_logs, collections, n_created, tracker_file, points, run,
                   ingested_files, idx, i, prev>>

\* lines 113 and 116: time.sleep(BATCH_SLEEP_TIME) after the batch, then the
\* next value of range(0, len(chunks), BATCH_SIZE) or the end of the loop
Sleep ==
    /\ pc = "sleep"
    /\ events' = Append(events, Event("sleep", idx, i))
    /\ i' = i + BATCH_SIZE
    /\ pc' = IF i + BATCH_SIZE < Len(chunks) THEN "upsert" ELSE "save"
    /\ UNCHANGED <<qvars, bvars, gvars, lvars, parts, input_logs, collections, n_created, tracker_file, points, run,
                   ingested_files, idx, ret, failures, prev>>

\* save_ingested_log_files that adds the name to the set loaded at the start
\* of the call instead of the set on disk
save_ingested_log_files_StaleSet(file_path) ==
    tracker_file' = ingested_files \cup {file_path}

\* save_ingested_log_files that writes the new file alone
save_ingested_log_files_Overwrite(file_path) ==
    tracker_file' = {file_path}

\* lines 54-59: read the tracker, add the file, write the whole set back
save_ingested_log_files(file_path) ==
    tracker_file' = load_ingested_log_files \cup {file_path}

\* lines 118-119: log success and mark the file
MarkIngested ==
    /\ pc = "save"
    /\ save_ingested_log_files(idx)
    /\ events' = Append(events, Event("save", idx, "info"))
    /\ NextFile
    /\ pc' = "loop"
    /\ UNCHANGED <<qvars, bvars, gvars, chunks, parts, input_logs, collections, n_created, points, run,
                   ingested_files, i, ret, failures, prev>>

\* lines 123-124: the loop is over; return collection_name
Return ==
    /\ pc = "loop"
    /\ idx = 0
    /\ events' = Append(events, Event("return", 0, "info"))
    /\ ret' = COLLECTION
    /\ pc' = "idle"
    /\ UNCHANGED <<qvars, bvars, gvars, lvars, parts, input_logs, collections, n_created, tracker_file, points, run,
                   ingested_files, idx, i, failures, prev>>

\* log-generator.py lines 116-129: generate_logs_for_day(date_str, num_logs)
\* writes num_logs fresh records as a JSON list to
\* input-logs/aks_logs_<date_str>.json, a new file or one that is there
\* already, whatever it held.  It is a script of its own: nothing orders its
\* steps with those of ingest_logs.
\*
\* s with x put in at position k
InsertAt(s, k, x) == SubSeq(s, 1, k - 1) \o <<x>> \o SubSeq(s, k, Len(s))

\* lines 116-127: the records are made; open(file_path, "w") creates the
\* file, which the file system lists at a place of its own, or cuts the one
\* that is there to length 0
generate_logs_for_day_open ==
    /\ g_pc = "idle"
    /\ n_generated < MaxGenerated
    /\ n_generated' = n_generated + 1
    /\ dirty' = TRUE
    /\ g_pc' = "dump"
    /\ \/ /\ input_logs' = Append(input_logs, MalformedFile)
          /\ g_file' = Len(input_logs) + 1
          /\ \E k \in 1..(Len(listing) + 1) :
                listing' = InsertAt(listing, k, Len(input_logs) + 1)
       \/ \E f \in 1..Len(input_logs) :
             /\ input_logs' = [input_logs EXCEPT ![f] =
                     [kind |-> "malformed", nrec |-> 0, ver |-> @.ver + 1]]
             /\ g_file' = f
             /\ UNCHANGED listing
    /\ UNCHANGED <<qvars, bvars, lvars, parts, collections, n_created, tracker_file, points, pc,
                   run, ingested_files, idx, i, events, ret, failures, prev>>

\* lines 128-129: json.dump(logs, f, indent=2) writes the list piece by
\* piece; until the closing bracket is on disk a reader finds text that is
\* not JSON.  Then the file holds num_logs records.
generate_logs_for_day_dump ==
    /\ g_pc = "dump"
    /\ \E num_logs \in 0..MaxRecords :
          input_logs' = [input_logs EXCEPT ![g_file] =
                             [kind |-> "json", nrec |-> num_logs, ver |-> @.ver]]
    /\ dirty' = TRUE
    /\ g_pc' = "idle"
    /\ g_file' = 0
    /\ UNCHANGED listing
    /\ UNCHANGED <<qvars, bvars, lvars, parts, collections, n_created, tracker_file, points, pc,
                   run, ingested_files, idx, i, events, ret, failures, prev, n_generated>>

Next ==
    \/ Begin
    \/ create_collection_if_not_exists
    \/ create_collection_raises
    \/ QdrantVectorStoreRaises
    \/ Discover
    \/ SkipIngested
    \/ ParseError
    \/ FileRaises
    \/ generate_logs_for_day_open
    \/ generate_logs_for_day_dump
    \/ ProcessFile
    \/ AddDocuments
    \/ AddDocumentsRaises
    \/ Sleep
    \/ MarkIngested
    \/ Return

Spec == Init /\ [][Next]_vars

\* ============================================================== query_log
REFUSAL == "Sorry, the question is out of my scope"

\* what the chat model may answer: some text of its own, or the very words
\* of the refusal
Answers == {"generated answer", REFUSAL}

Scores == 0..MaxScore

\* the points of a collection ranked for a query: a non-increasing sequence
\* of scores, the document at rank j being chunk j of the collection
Ranking(scores) ==
    [j \in DOMAIN scores |->
        [doc |-> [source |-> 1, doc |-> j, part |-> 1], score |-> scores[j]]]

Rankings ==
    {Ranking(sc) : sc \in {t \in SeqsUpTo(Scores, MaxHits) :
                              /\ Len(t) >= 1
                              /\ \A j \in 1..(Len(t) - 1) : t[j] >= t[j + 1]}}

\* lines 36-50: the module loads only when the collection exists and holds
\* at least one point
InitQuery ==
    /\ hits \in Rankings
    /\ collections = {COLLECTION}
    /\ points = SetToBag({hits[j].doc : j \in DOMAIN hits})
    /\ input_logs = <<>>
    /\ parts = 1
    /\ n_created = 0
    /\ tracker_file = {}
    /\ pc = "idle"
    /\ run = 0
    /\ ingested_files = {}
    /\ idx = 0
    /\ i = 0
    /\ events = <<>>
    /\ ret = None
    /\ failures = 0
    /\ prev = NoPrev
    /\ n_generated = 0
    /\ dirty = FALSE
    /\ g_pc = "idle"
    /\ g_file = 0
    /\ listing = <<>>
    /\ log_files = <<>>
    /\ chunks = <<>>
    /\ q_pc = "idle"
    /\ top_k = 0
    /\ threshold = 0
    /\ docs_and_scores = <<>>
    /\ filtered_docs = <<>>
    /\ response = NoResponse
    /\ llm_calls = 0
    /\ q_calls = 0
    /\ q_ret = None
    /\ history_arg = NoHistory
    /\ chat_history = <<>>
    /\ q_last = NoCall
    /\ BuildOff

\* line 27: CHAT_HISTORY_LIMIT is read from the environment and used nowhere
CHAT_HISTORY_LIMIT == 2

\* a history of n turns
History(n) == [t \in 1..n |-> t]

\* the chat_history arguments: None (the default) or a list of turns, also
\* longer than CHAT_HISTORY_LIMIT
Histories ==
    {NoHistory} \cup
    {[given |-> TRUE, turns |-> History(n)] : n \in 0..(CHAT_HISTORY_LIMIT + MaxOver)}

\* a local chat_history cut to the last CHAT_HISTORY_LIMIT turns
OrEmpty_Truncated(h) ==
    IF ~h.given THEN <<>>
    ELSE IF Len(h.turns) <= CHAT_HISTORY_LIMIT THEN h.turns
    ELSE SubSeq(h.turns, Len(h.turns) - CHAT_HISTORY_LIMIT + 1, Len(h.turns))

\* line 78: chat_history = chat_history or []
OrEmpty(h) == IF ~h.given THEN <<>> ELSE h.turns

\* line 75: query_log(query_text, k, threshold, chat_history) is called.
\* The first call of a session chooses k and threshold; the calls after it
\* repeat the question with the same k and threshold and another history.
query_log_Call ==
    /\ q_pc = "idle"
    /\ q_calls < MaxQueries
    /\ IF q_calls = 0
       THEN \E kk \in 1..MaxK, th \in Scores :
               /\ top_k' = kk
               /\ threshold' = th
       ELSE UNCHANGED <<top_k, threshold>>
    /\ \E h \in Histories :
          /\ history_arg' = h
          /\ chat_history' = OrEmpty(h)
    /\ q_last' = [k |-> top_k, threshold |-> threshold, history |-> history_arg,
                  result |-> response.result, ret |-> q_ret]
    /\ q_calls' = q_calls + 1
    /\ docs_and_scores' = <<>>
    /\ filtered_docs' = <<>>
    /\ response' = NoResponse
    /\ q_ret' = Running
    /\ q_pc' = "retrieve"
    /\ UNCHANGED <<ivars, bvars, hits, llm_calls>>

\* line 64: the vector store's similarity_search_with_score(query, k): the
\* k best-ranked points, fewer when the collection holds fewer
similarity_search_with_score(kk) == SubSeq(hits, 1, Min(kk, Len(hits)))

\* ThresholdFilter with a strict comparison
ThresholdFilter_Strict(ds, th) ==
    LET kept == SelectSeq(ds, LAMBDA h : h.score > th)
    IN  [j \in DOMAIN kept |-> kept[j].doc]

\* line 65: [doc for doc, score in docs_and_scores if score >= threshold]
ThresholdFilter(ds, th) ==
    LET kept == SelectSeq(ds, LAMBDA h : h.score >= th)
    IN  [j \in DOMAIN kept |-> kept[j].doc]

\* lines 63-68, reached from qa_chain.invoke at line 88
get_relevant_documents ==
    /\ q_pc = "retrieve"
    /\ docs_and_scores' = similarity_search_with_score(top_k)
    /\ filtered_docs' = ThresholdFilter(similarity_search_with_score(top_k), threshold)
    /\ q_pc' = "generate"
    /\ UNCHANGED <<ivars, bvars, hits, top_k, threshold, response, llm_calls, q_calls, q_ret,
                   hvars>>

\* lines 82-88: the RetrievalQA chain hands the retrieved documents, however
\* many, to the chat model and returns its text with the documents
Generate ==
    /\ q_pc = "generate"
    /\ \E out \in Answers :
          response' = [result |-> out, source_documents |-> filtered_docs]
    /\ llm_calls' = llm_calls + 1
    /\ q_pc' = "respond"
    /\ UNCHANGED <<ivars, bvars, hits, top_k, threshold, docs_and_scores, filtered_docs,
                   q_calls, q_ret, hvars>>

\* query_log's result without the check for an empty document list
QueryLogResult_NoCheck(resp) == <<resp.result, resp.source_documents>>

\* lines 90-100: the refusal when the chain returned no source document,
\* otherwise the chain's text and documents
QueryLogResult(resp) ==
    IF resp.source_documents = <<>>
    THEN <<REFUSAL, <<>>>>
    ELSE <<resp.result, resp.source_documents>>

\* Respond that returns the chain's text without its documents
Respond_DropsSources ==
    /\ q_pc = "respond"
    /\ q_ret' = <<QueryLogResult(response)[1], <<>>>>
    /\ q_pc' = "idle"
    /\ UNCHANGED <<ivars, bvars, hits, top_k, threshold, docs_and_scores, filtered_docs,
                   response, llm_calls, q_calls, hvars>>

\* lines 89-100: query_log returns
Respond ==
    /\ q_pc = "respond"
    /\ q_ret' = QueryLogResult(response)
    /\ q_pc' = "idle"
    /\ UNCHANGED <<ivars, bvars, hits, top_k, threshold, docs_and_scores, filtered_docs,
                   response, llm_calls, q_calls, hvars>>

NextQuery ==
    \/ query_log_Call
    \/ get_relevant_documents
    \/ Generate
    \/ Respond

SpecQuery == InitQuery /\ [][NextQuery]_vars

\* ------------------------------------------------------------- C4 and C10
\* the ranks among the k best whose score reaches the threshold
Qualifying == {j \in 1..Min(top_k, Len(hits)) : hits[j].score >= threshold}

QueryReturned == q_pc = "idle" /\ q_calls >= 1

\* C4: whenever no document among the k best reaches the threshold,
\* query_log returns exactly the refusal text with an empty citation list,
\* and every result of query_log with an empty citation list carries the
\* refusal text, whatever the chat model answered.
C4_RefusalWhenNothingRetrieved ==
    QueryReturned =>
        /\ Qualifying = {} => q_ret = <<REFUSAL, <<>>>>
        /\ q_ret[2] = <<>> => q_ret[1] = REFUSAL

\* nothing reached the threshold, the chat model answered with a text of
\* its own, and query_log returned the refusal
C4_Witness ==
    /\ QueryReturned
    /\ Qualifying = {}
    /\ response.result = "generated answer"
    /\ q_ret = <<REFUSAL, <<>>>>

\* the retriever has returned
Retrieved == q_pc \in {"generate", "respond"} \/ QueryReturned

RankOf(d) == CHOOSE j \in DOMAIN hits : hits[j].doc = d

\* C10: the retriever returns exactly the documents among the (at most) k
\* best whose score is at least the threshold, each once, in the order of the
\* search (descending score); never more than k, never one below the
\* threshold, and an empty sequence, without raising, when none qualifies.
C10_RetrieverFiltersByThreshold ==
    Retrieved =>
        /\ Len(docs_and_scores) = Min(top_k, Len(hits))
        /\ Len(filtered_docs) <= top_k
        /\ \A n \in DOMAIN filtered_docs :
              \E j \in Qualifying : hits[j].doc = filtered_docs[n]
        /\ \A j \in Qualifying :
              \E n \in DOMAIN filtered_docs : filtered_docs[n] = hits[j].doc
        /\ Len(filtered_docs) = Cardinality(Qualifying)
        /\ \A m, n \in DOMAIN filtered_docs :
              m < n => /\ RankOf(filtered_docs[m]) < RankOf(filtered_docs[n])
                       /\ hits[RankOf(filtered_docs[m])].score
                             >= hits[RankOf(filtered_docs[n])].score
        /\ Qualifying = {} => filtered_docs = <<>>

\* k cuts the ranking, one of the k best scores exactly the threshold and is
\* returned, another falls below it and is dropped
C10_Witness ==
    /\ q_pc = "generate"
    /\ top_k < Len(hits)
    /\ Len(filtered_docs) >= 1
    /\ Len(filtered_docs) < top_k
    /\ hits[Len(filtered_docs)].score = threshold

\* -------------------------------------------------------------------- C11
\* the scores of the returned citations, in the order returned
CitationScores == [n \in DOMAIN q_ret[2] |-> hits[RankOf(q_ret[2][n])].score]

CitationsGrounded ==
    /\ q_ret[2] # <<>>
    /\ Len(q_ret[2]) = Cardinality(Qualifying)
    /\ \A n \in DOMAIN q_ret[2] : CitationScores[n] >= threshold
    /\ \A n \in 1..(Len(q_ret[2]) - 1) : CitationScores[n] >= CitationScores[n + 1]

\* C11 (as claimed): with at least one match at or above the threshold,
\* query_log returns a text that is not the refusal, and a non-empty citation
\* list with scores >= threshold in descending order.
C11_NonRefusalWithCitations ==
    (QueryReturned /\ Qualifying # {}) =>
        /\ q_ret[1] # REFUSAL
        /\ CitationsGrounded

\* C11 (amended): with at least one match at or above the threshold,
\* query_log returns the text the chat model produced, whatever it is (the
\* refusal wording included), and a non-empty citation list with scores >=
\* threshold in descending order.
C11_GeneratedTextWithCitations ==
    (QueryReturned /\ Qualifying # {}) =>
        /\ q_ret[1] = response.result
        /\ q_ret[1] \in Answers
        /\ CitationsGrounded

\* two documents of different scores pass the threshold, a third of the k
\* best does not, and the answer is the chat model's own text
C11_Witness ==
    /\ QueryReturned
    /\ Cardinality(Qualifying) = 2
    /\ top_k = 3
    /\ Len(hits) = 3
    /\ hits[1].score > hits[2].score
    /\ q_ret[1] = "generated answer"
    /\ Len(q_ret[2]) = 2

\* -------------------------------------------------------------------- C14
\* C14: when nothing reaches the threshold, query_log produces the refusal
\* without invoking the chat model; the model is invoked only on the path
\* where the citation list is non-empty.
C14_NoGenerationOnRefusal ==
    (q_pc \in {"respond", "idle"} /\ q_calls >= 1 /\ Qualifying = {}) =>
        llm_calls < q_calls

\* ======================================= one file through lines 100-116
\* The body of the file loop as a function of the file and the settings:
\* a file of b_n records, group size b_G, batch size b_B, b_lines text lines
\* per record.
DAY1 == 1

InitBuild ==
    /\ b_pc = "build"
    /\ b_n \in 0..MaxN
    /\ b_G \in 1..MaxGroup
    /\ b_B \in 1..MaxBatch
    /\ b_lines \in 1..MaxRecLines
    /\ b_docs = <<>>
    /\ b_chunks = <<>>
    /\ b_i = 0
    /\ b_batches = <<>>
    /\ input_logs = <<>>
    /\ parts = 1
    /\ collections = {COLLECTION}
    /\ n_created = 0
    /\ tracker_file = {}
    /\ points = EmptyBag
    /\ pc = "idle"
    /\ run = 0
    /\ ingested_files = {}
    /\ idx = 0
    /\ i = 0
    /\ events = <<>>
    /\ ret = None
    /\ failures = 0
    /\ prev = NoPrev
    /\ n_generated = 0
    /\ dirty = FALSE
    /\ g_pc = "idle"
    /\ g_file = 0
    /\ listing = <<>>
    /\ log_files = <<>>
    /\ chunks = <<>>
    /\ hits = <<>>
    /\ q_pc = "idle"
    /\ top_k = 0
    /\ threshold = 0
    /\ docs_and_scores = <<>>
    /\ filtered_docs = <<>>
    /\ response = NoResponse
    /\ llm_calls = 0
    /\ q_calls = 0
    /\ q_ret = None
    /\ history_arg = NoHistory
    /\ chat_history = <<>>
    /\ q_last = NoCall

\* lines 100-105
BuildStep ==
    /\ b_pc = "build"
    /\ b_docs' = BuildDocsOf(DAY1, 0, b_n, b_G)
    /\ b_pc' = "split"
    /\ UNCHANGED <<ivars, qvars, b_n, b_G, b_B, b_lines, b_chunks, b_i, b_batches>>

\* lines 108-111: split the documents; with chunks enter the batch loop,
\* without any the file is done (lines 120-121)
SplitStep ==
    /\ b_pc = "split"
    /\ b_chunks' = split_documents(b_docs, b_lines)
    /\ b_i' = 0
    /\ b_pc' = IF Len(split_documents(b_docs, b_lines)) > 0 THEN "write" ELSE "done"
    /\ UNCHANGED <<ivars, qvars, b_n, b_G, b_B, b_lines, b_docs, b_batches>>

\* lines 114-115: vector_store.add_documents(chunks[i:i + B]) returns: the
\* store holds the batch
BuildAddDocuments ==
    /\ b_pc = "write"
    /\ points' = Upsert(points, BatchAtOf(b_chunks, b_i, b_B))
    /\ b_batches' = Append(b_batches, BatchAtOf(b_chunks, b_i, b_B))
    /\ b_pc' = "sleep"
    /\ UNCHANGED <<qvars, gvars, lvars, input_logs, parts, collections, n_created, tracker_file, pc, run,
                   ingested_files, idx, i, events, ret, failures, prev,
                   b_n, b_G, b_B, b_lines, b_docs, b_chunks, b_i>>

\* line 115: vector_store.add_documents raises: the exception leaves the
\* loop with the batches written so far in the store
BuildAddDocumentsRaises ==
    /\ b_pc = "write"
    /\ failures < MaxFailures
    /\ failures' = failures + 1
    /\ b_pc' = "raised"
    /\ UNCHANGED <<qvars, gvars, lvars, input_logs, parts, collections, n_created, tracker_file, points, pc,
                   run, ingested_files, idx, i, events, ret, prev,
                   b_n, b_G, b_B, b_lines, b_docs, b_chunks, b_i, b_batches>>

\* line 116 and the loop head of line 113: time.sleep(BATCH_SLEEP_TIME),
\* then the next offset or the end of the loop
BuildSleep ==
    /\ b_pc = "sleep"
    /\ b_i' = b_i + b_B
    /\ b_pc' = IF b_i + b_B < Len(b_chunks) THEN "write" ELSE "done"
    /\ UNCHANGED <<ivars, qvars, b_n, b_G, b_B, b_lines, b_docs, b_chunks, b_batches>>

NextBuild ==
    \/ BuildStep
    \/ SplitStep
    \/ BuildAddDocuments
    \/ BuildAddDocumentsRaises
    \/ BuildSleep

SpecBuild == InitBuild /\ [][NextBuild]_vars

\* -------------------------------------------------------------------- C15
RECURSIVE Flatten(_)
Flatten(ss) == IF ss = <<>> THEN <<>> ELSE Head(ss) \o Flatten(Tail(ss))

\* the batches taken so far are consecutive slices of b_B chunks, in order
BatchesSoFar ==
    /\ \A j \in DOMAIN b_batches : \A m \in DOMAIN b_batches[j] :
          b_batches[j][m] = b_chunks[(j - 1) * b_B + m]
    /\ \A j \in 1..(Len(b_batches) - 1) : Len(b_batches[j]) = b_B
    /\ points = SetToBag(Range(Flatten(b_batches)))
    /\ b_pc = "write" => b_i = Len(b_batches) * b_B
    /\ b_pc = "sleep" => b_i = (Len(b_batches) - 1) * b_B

\* C15: for a chunk sequence of length n >= 1 and batch size B >= 1 the
\* writer issues exactly ceil(n/B) upserts; the batches are consecutive,
\* disjoint slices of the sequence in original order, every batch but the
\* last has exactly B chunks, the last has between 1 and B, and together
\* they cover every chunk exactly once.
C15_BatchesPartitionChunks ==
    /\ b_pc \in {"write", "sleep", "raised", "done"} => BatchesSoFar
    /\ (b_pc = "done" /\ Len(b_chunks) >= 1) =>
        LET n  == Len(b_chunks)
            nb == Len(b_batches)
        IN  /\ nb = CeilDiv(n, b_B)
            /\ nb * b_B >= n
            /\ (nb - 1) * b_B < n
            /\ Len(b_batches[nb]) \in 1..b_B
            /\ Flatten(b_batches) = b_chunks
            /\ \A m \in DOMAIN b_chunks : CopiesIn(b_chunks[m], points) = 1

\* five chunks written with batch size two: three batches, the last of one
C15_Witness ==
    /\ b_pc = "done"
    /\ Len(b_chunks) = 5
    /\ b_B = 2
    /\ Len(b_batches) = 3
    /\ Len(b_batches[3]) = 1

\* -------------------------------------------------------------------- C17
\* the documents that hold record r (1-based)
DocsHolding(r) == {j \in DOMAIN b_docs : b_docs[j].first <= r /\ r <= b_docs[j].last}

\* C17: for a file with n records and group size G >= 1 the builder produces
\* exactly ceil(n/G) documents; document j (counted from 0) holds records
\* j*G .. min((j+1)*G, n)-1 (counted from 0) in their original order, each
\* document carries the file's identifier as source, and every record is in
\* exactly one document (3 records give 1 document for G=20 and 3 for G=1).
C17_DocumentsPartitionRecords ==
    b_pc \in {"split", "write", "sleep", "raised", "done"} =>
        /\ Len(b_docs) = CeilDiv(b_n, b_G)
        /\ Len(b_docs) * b_G >= b_n
        /\ (b_n >= 1) => (Len(b_docs) - 1) * b_G < b_n
        /\ \A j \in 0..(Len(b_docs) - 1) :
              /\ b_docs[j + 1].first - 1 = j * b_G
              /\ b_docs[j + 1].last - 1 = Min((j + 1) * b_G, b_n) - 1
              /\ b_docs[j + 1].first <= b_docs[j + 1].last
              /\ b_docs[j + 1].source = DAY1
        /\ \A r \in 1..b_n : Cardinality(DocsHolding(r)) = 1
        /\ (b_n = 3 /\ b_G = 20) => Len(b_docs) = 1
        /\ (b_n = 3 /\ b_G = 1) => Len(b_docs) = 3

\* five records in groups of two: three documents, the last of one record
C17_Witness ==
    /\ b_pc = "split"
    /\ b_n = 5
    /\ b_G = 2
    /\ Len(b_docs) = 3
    /\ b_docs[3].first = 5
    /\ b_docs[3].last = 5

\* -------------------------------------------------------------------- C18
\* C18: every chunk submitted to the vector store has length at most the
\* configured CHUNK_SIZE, and consecutive chunks overlap by at most the
\* configured CHUNK_OVERLAP.
C18_ChunksWithinConfiguredSize ==
    b_pc \in {"write", "sleep", "raised", "done"} =>
        \A j \in DOMAIN b_batches : \A m \in DOMAIN b_batches[j] :
            /\ b_batches[j][m].length <= CHUNK_SIZE
            /\ b_batches[j][m].overlap <= CHUNK_OVERLAP

\* =================================================== ingestion: properties
Files == 1..Len(input_logs)

\* positions in the current call's events of the events of file f with op
EventsOf(f, op) == {k \in DOMAIN events : events[k].file = f /\ events[k].op = op}

\* number of points of the store that came from file f as it is now
PointsOf(f) ==
    LET cs == {c \in BagToSet(points) : c.source = f /\ c.ver = input_logs[f].ver}
        RECURSIVE Sum(_)
        Sum(S) == IF S = {} THEN 0
                  ELSE LET c == CHOOSE x \in S : TRUE
                       IN  CopiesIn(c, points) + Sum(S \ {c})
    IN  Sum(cs)

AllChunksStored(f) ==
    LET cs == Chunks(f)
    IN  \A n \in DOMAIN cs : CopiesIn(cs[n], points) >= 1

\* the versions of file f of which the store holds a chunk
StoredVers(f) == {c.ver : c \in {x \in BagToSet(points) : x.source = f}}

\* tracked files that the generator has written to since they were read:
\* the store holds what the file held before
Stale == {f \in tracker_file : input_logs[f].ver \notin StoredVers(f)}

\* the loop of the current call has left file f behind
Past(f) ==
    /\ pc \in {"loop", "upsert", "sleep", "save"}
    /\ f # idx
    /\ f \notin Range(log_files)

\* a step of ingest_logs (the generator writes neither pc nor events)
IngestStep == <<pc, events>>' # <<pc, events>>

C1_Inv ==
    /\ \A f \in tracker_file :
          /\ f \in Files
          /\ StoredVers(f) # {}
          /\ EventsOf(f, "raise") = {}
          /\ f \notin Stale =>
                /\ input_logs[f].kind = "json"
                /\ Len(Chunks(f)) > 0
                /\ AllChunksStored(f)
    /\ pc = "save" =>
          /\ Len(chunks) > 0
          /\ \A n \in DOMAIN chunks : CopiesIn(chunks[n], points) >= 1
          /\ EventsOf(idx, "raise") = {}
          /\ BatchOffsetsOf(chunks) \subseteq
                {events[u].arg : u \in EventsOf(idx, "upsert")}

C1_Step ==
    tracker_file' # tracker_file =>
        /\ pc = "save"
        /\ idx \in tracker_file'

\* C1: a file is added to the tracker only after every batch of its chunks
\* was submitted to the vector store without error.  The tracker changes
\* only at the mark of lines 118-119; when the call is there, every batch
\* offset of the chunks it built from the file has been submitted, none
\* raised, and the store holds every one of these chunks.  In every
\* reachable state a tracked file has points in the store and no failed
\* batch, and, unless the generator has written to it since it was read, the
\* store holds every chunk of what the file holds.
C1_MarkedOnlyAfterAllBatches == []C1_Inv /\ [][C1_Step]_vars

\* a call ended by a failed batch write: the file written before it is
\* tracked, the file whose batch raised is partly stored and untracked
C1_Witness ==
    /\ pc = "idle"
    /\ ret = Raised
    /\ tracker_file # {}
    /\ \E f \in Files :
          /\ EventsOf(f, "raise") # {}
          /\ PointsOf(f) > 0
          /\ ~AllChunksStored(f)
          /\ f \notin tracker_file

\* --------------------------------------------------------------------- C2
\* C2: a file whose identifier is in the tracker when a call of ingest_logs
\* begins is skipped by that call: the call does nothing with it but the
\* skip (no parse, no batch submitted, no mark), at most once, and once the
\* loop is past the file the skip has happened and its points are untouched.
C2_TrackedFileIsSkipped ==
    run >= 1 =>
      \A f \in prev.tracker :
        /\ \A k \in DOMAIN events : events[k].file = f => events[k].op = "skip"
        /\ Cardinality(EventsOf(f, "skip")) <= 1
        /\ Past(f) => Cardinality(EventsOf(f, "skip")) = 1
        /\ f \in tracker_file

\* a second call that skipped a tracked file and went on to write another
\* file, the one whose batch had raised in the first call
C2_Witness ==
    /\ run = 2
    /\ prev.failed # 0
    /\ \E f \in prev.tracker : EventsOf(f, "skip") # {}
    /\ EventsOf(prev.failed, "upsert") # {}

\* --------------------------------------------------------------------- C3
Returned(r) == r \in {COLLECTION, None}

\* the call recorded in p went through the directory as far as the code
\* goes: it returned, or a file it cannot read ended it
RanToItsEnd(p) == Returned(p.ret) \/ p.cause = "file_raise"

\* C3: when a call of ingest_logs was not cut short by the vector store,
\* calling it again on the same source files (well-formed, empty, malformed;
\* nothing written to the directory since the first call began) leaves the
\* tracker content
\* and the point count of the collection as the first call left them, in
\* every state of the second call and after it.
C3_SecondRunChangesNothing ==
    (run >= 2 /\ RanToItsEnd(prev) /\ ~prev.dirty /\ ~dirty) =>
        /\ tracker_file = prev.tracker
        /\ BagCardinality(points) = prev.npoints

\* two calls returned, over a well-formed file written in several batches
\* and a file that is empty or malformed
C3_Witness ==
    /\ run = 2
    /\ pc = "idle"
    /\ ret = COLLECTION
    /\ prev.ret = COLLECTION
    /\ \E f \in Files : input_logs[f].kind = "malformed" \/ input_logs[f].nrec = 0
    /\ \E f \in Files : f \in tracker_file /\ PointsOf(f) > BATCH_SIZE

\* --------------------------------------------------------------------- C5
\* the files of the current call that were still to be ingested when the
\* call began: untracked, parse, and have chunks to write
Ingestable(f) ==
    /\ f \notin prev.tracker
    /\ input_logs[f].kind = "json"
    /\ Len(Chunks(f)) > 0

\* C5 (as claimed): when a batch write fails for one file, the call goes on
\* with the next file, so once the call is over every ingestable file that
\* was listed after it is tracked.
C5_ContinuesAfterWriteError ==
    (pc = "idle" /\ run >= 1 /\ FailedFile(events) # 0 /\ ~dirty) =>
        \A g \in Range(log_files) : Ingestable(g) => g \in tracker_file

\* --------------------------------------------------------------------- C6
\* offsets of the batches of f submitted or attempted by the current call, in
\* the order of the events
Attempts(f) ==
    SelectSeq(events, LAMBDA e : e.file = f /\ e.op \in {"upsert", "raise"})

\* C6: when a batch write fails for a file, nothing more is submitted in
\* that call (the raise is the call's last event) and the file is not
\* tracked; the next call does not skip the file and submits its batches
\* again from the first one (offset 0), in order.
C6_FailedFileRetriedFromStart ==
    /\ FailedFile(events) # 0 =>
          /\ pc = "idle"
          /\ ret = Raised
          /\ events[Len(events)].op = "raise"
          /\ FailedFile(events) \notin tracker_file
    /\ (run >= 2 /\ prev.failed # 0 /\ ~prev.dirty /\ ~dirty) =>
          LET f == prev.failed
              att == Attempts(f)
          IN  /\ f \notin prev.tracker
              /\ EventsOf(f, "skip") = {}
              /\ \A k \in DOMAIN att : att[k].arg = (k - 1) * BATCH_SIZE
              /\ (ret = COLLECTION \/ Past(f)) =>
                    /\ EventsOf(f, "parsed") # {}
                    /\ Len(att) = Cardinality(BatchOffsets(f))
                    /\ f \in tracker_file

\* the second batch of a file raised in the first call; the second call
\* wrote the file again from its first batch and marked it
C6_Witness ==
    /\ run = 2
    /\ prev.failed # 0
    /\ prev.npoints > 0
    /\ PointsOf(prev.failed) > Len(Chunks(prev.failed))
    /\ Len(Attempts(prev.failed)) >= 2
    /\ prev.failed \in tracker_file

\* --------------------------------------------------------------------- C7
\* content that is not valid JSON: text json.load rejects with
\* JSONDecodeError, or bytes that are not text at all
IsMalformed(f) == input_logs[f].kind \in {"malformed", "undecodable"}

\* the file holds what it held when it came into the directory
Untouched(f) == input_logs[f].ver = 0

C7_Inv ==
    \A f \in Files :
        (IsMalformed(f) /\ Untouched(f)) =>
            /\ f \notin tracker_file
            /\ PointsOf(f) = 0
            /\ \A k \in DOMAIN events :
                  events[k].file = f =>
                      events[k].op = "parse_error" /\ events[k].arg = "error"

C7_Step ==
    (pc = "loop" /\ idx \in Files /\ idx \notin ingested_files /\ IsMalformed(idx)
     /\ IngestStep) =>
        /\ pc' = "loop"
        /\ NextFile
        /\ events' = Append(events, Event("parse_error", idx, "error"))
        /\ UNCHANGED <<parts, input_logs, collections, n_created, tracker_file, points,
                       run, ingested_files, ret, failures, prev, chunks>>

\* C7: a source file that is not valid JSON is skipped as a parse error:
\* it is never tracked, the store never holds a point of it, the only thing
\* a call does with it is to report the error, and that step leaves the
\* tracker, the store and the rest of the call's state as they were and moves
\* to the next file, so the other files are handled as if it were not there.
\* It holds for the files json.load rejects with JSONDecodeError and fails
\* for a file whose bytes do not decode: FileRaises ends the call there.
C7_MalformedFileSkipped == []C7_Inv /\ [][C7_Step]_vars

\* --------------------------------------------------------------------- C8
IsEmpty(f) == input_logs[f].kind = "json" /\ input_logs[f].nrec = 0

C8_Inv ==
    \A f \in Files \ Stale :
        IsEmpty(f) =>
            /\ Len(BuildDocs(f)) = 0
            /\ Len(Chunks(f)) = 0
            /\ f \notin tracker_file
            /\ PointsOf(f) = 0
            /\ ~dirty =>
                  /\ \A k \in DOMAIN events :
                        events[k].file = f =>
                            events[k].op = "no_chunks" /\ events[k].arg = "warning"
                  /\ Past(f) => Cardinality(EventsOf(f, "no_chunks")) = 1

C8_Step ==
    (pc = "loop" /\ idx \in Files /\ idx \notin ingested_files /\ IsEmpty(idx)
     /\ IngestStep) =>
        /\ pc' = "loop"
        /\ NextFile
        /\ events' = Append(events, Event("no_chunks", idx, "warning"))
        /\ chunks' = <<>>
        /\ UNCHANGED <<parts, input_logs, collections, n_created, tracker_file, points,
                       run, ingested_files, ret, failures, prev>>

\* C8: a source file with zero records gives zero documents and zero chunks;
\* nothing of it is submitted, it is never tracked (so every call examines it
\* again), the call reports it with a warning, not an error, and goes on to
\* the next file.  (A file that was tracked with records and rewritten
\* empty afterwards is skipped like every tracked file and is not the
\* subject here.)
C8_EmptyFileWarned == []C8_Inv /\ [][C8_Step]_vars

\* the second call examined the empty file again, warned, and went on to
\* the file after it
C8_Witness ==
    /\ run = 2
    /\ prev.ret = COLLECTION
    /\ Len(input_logs) = 2
    /\ IsEmpty(1)
    /\ EventsOf(1, "no_chunks") # {}
    /\ EventsOf(2, "skip") # {}
    /\ ret = COLLECTION

\* --------------------------------------------------------------------- C9
\* the upserts and sleeps the current call did for file f, in order
WriteTrace(f) ==
    SelectSeq(events, LAMBDA e : e.file = f /\ e.op \in {"upsert", "sleep"})

NBatches(f) == CeilDiv(Len(Chunks(f)), BATCH_SIZE)

\* the batch loop of file f has run to its end in the current call (and the
\* file is still the one the call read)
LoopDone(f) == ~dirty /\ (EventsOf(f, "save") # {} \/ (pc = "save" /\ idx = f))

\* C9 (as claimed): a file written in n batches costs n-1 sleeps, none after
\* the last batch.
C9_SleepsOnlyBetweenBatches ==
    \A f \in Files :
        LoopDone(f) =>
            /\ Cardinality(EventsOf(f, "upsert")) = NBatches(f)
            /\ Cardinality(EventsOf(f, "sleep")) = NBatches(f) - 1

\* C9 (amended): the writer sleeps after every batch, the last one included:
\* upserts and sleeps alternate, each sleep directly follows the upsert of
\* the same batch, and a file written in n batches costs exactly n upserts
\* and n sleeps.
C9_SleepsAfterEveryBatch ==
    \A f \in Files :
        LET tr == WriteTrace(f)
            n  == Len(tr)
        IN  /\ \A m \in 1..n :
                  /\ tr[m].op = (IF m % 2 = 1 THEN "upsert" ELSE "sleep")
                  /\ tr[m].arg = ((m - 1) \div 2) * BATCH_SIZE
            /\ LoopDone(f) =>
                  /\ Cardinality(EventsOf(f, "upsert")) = NBatches(f)
                  /\ Cardinality(EventsOf(f, "sleep")) = NBatches(f)
                  /\ tr[n].op = "sleep"
            /\ (pc = "save" /\ idx = f) =>
                  /\ Cardinality(EventsOf(f, "upsert")) = CeilDiv(Len(chunks), BATCH_SIZE)
                  /\ Cardinality(EventsOf(f, "sleep")) = CeilDiv(Len(chunks), BATCH_SIZE)

\* a file of four chunks written in two batches: two upserts, two sleeps
C9_Witness ==
    /\ pc = "save"
    /\ Len(chunks) = 4
    /\ Cardinality(EventsOf(idx, "upsert")) = 2
    /\ Cardinality(EventsOf(idx, "sleep")) = 2

\* -------------------------------------------------------------------- C12
\* operations that read a source file, write chunks or write the tracker
FileOps == {"load", "skip", "parse_error", "parsed", "no_chunks",
            "upsert", "raise", "sleep", "save"}

\* the call in progress (or the last one) was aborted while ensuring the
\* collection
EnsureFailed == events # <<>> /\ events[1].op = "ensure_raise"

C12_Inv ==
    /\ n_created <= 1
    /\ n_created = 1 <=> CollectionExists(COLLECTION)
    /\ pc \in {"glob", "loop", "upsert", "sleep", "save"} =>
          events # <<>> /\ events[1].op = "ensure"
    /\ \A n \in DOMAIN events :
          (events[n].op \in FileOps \cup {"no_files", "return"}) =>
              (n > 1 /\ events[1].op = "ensure")
    /\ \A n \in DOMAIN events :
          (n > 1) => events[n].op \notin {"ensure", "ensure_raise"}
    /\ EnsureFailed =>
          /\ Len(events) = 1
          /\ pc = "idle"
          /\ ret = Raised
          /\ tracker_file = prev.tracker
          /\ BagCardinality(points) = prev.npoints

C12_Step ==
    /\ n_created' > n_created => ~CollectionExists(COLLECTION)
    /\ (CollectionExists(COLLECTION) /\ pc = "ensure") =>
          (collections' = collections /\ points' = points)
    /\ (pc = "ensure" /\ ret' = Raised) =>
          (pc' = "idle" /\ tracker_file' = tracker_file /\ points' = points
           /\ collections' = collections)

\* C12: in every run the collection is ensured (created only if absent,
\* never re-created when present) before any source file is read or written;
\* if ensuring the collection fails, the run aborts with no file parsed, no
\* chunk written and the tracker unchanged.
C12_CollectionEnsuredFirst == []C12_Inv /\ [][C12_Step]_vars

\* a second run finds the collection that the first one created and filled,
\* leaves it alone, and goes on to the files
C12_Witness ==
    /\ run = 2
    /\ n_created = 1
    /\ prev.npoints > 0
    /\ events # <<>>
    /\ events[1] = Event("ensure", 0, "exists")
    /\ pc = "loop"
    /\ BagCardinality(points) = prev.npoints

\* a second run is aborted while ensuring the collection, after a first run
\* that stored and tracked a file
C12_WitnessAbort ==
    /\ run = 2
    /\ EnsureFailed
    /\ prev.tracker # {}
    /\ prev.npoints > 0

\* -------------------------------------------------------------------- C13
\* the file whose write failed in the previous call has now been ingested
\* completely: it is tracked
RetriedAfterFailure ==
    /\ run >= 2
    /\ prev.failed # 0
    /\ ~prev.dirty
    /\ ~dirty
    /\ prev.failed \in tracker_file

\* C13: after a run that wrote some batches of a file and then failed,
\* followed by a run that ingests the file completely, the vector store holds
\* each chunk of that file exactly once.
C13_RetryHoldsEachChunkOnce ==
    RetriedAfterFailure =>
        LET cs == Chunks(prev.failed)
        IN  \A n \in DOMAIN cs : CopiesIn(cs[n], points) = 1

\* -------------------------------------------------------------------- C16
\* C16: every run that is not aborted by a fatal error returns the collection
\* identifier it was given, including a run that discovers no source files.
C16_ReturnsCollectionId ==
    (pc = "idle" /\ run >= 1 /\ ret # Raised) => ret = COLLECTION

\* -------------------------------------------------------------------- C19
C19_Inv ==
    /\ (pc = "idle" /\ run >= 1) => prev.tracker \subseteq tracker_file
    /\ ingested_files \subseteq tracker_file
    /\ \A f \in tracker_file : f \in Files

C19_Step ==
    /\ tracker_file \subseteq tracker_file'
    /\ tracker_file' # tracker_file =>
          /\ pc = "save"
          /\ idx \notin tracker_file
          /\ \A n \in DOMAIN chunks : CopiesIn(chunks[n], points) >= 1
          /\ tracker_file' = tracker_file \cup {idx}

\* C19: across any sequence of runs (successful, failing or with skipped
\* files) the set of identifiers in the tracker file never loses an element,
\* and each successful file adds exactly its own identifier to the set that
\* was on disk.
C19_TrackerAppendOnly == []C19_Inv /\ [][C19_Step]_vars

\* the second file of a run has been added to a tracker that already held
\* the first file of the same run, which started with an empty tracker
C19_Witness ==
    /\ tracker_file = {1, 2}
    /\ ingested_files = {}
    /\ EventsOf(1, "save") # {}
    /\ EventsOf(2, "save") # {}

\* -------------------------------------------------------------------- C20
\* the returned call and the one before it had the same k, threshold and
\* chat-model output (the collection and the query are the same throughout)
SameInputsAsLast ==
    /\ QueryReturned
    /\ q_calls >= 2
    /\ q_last.k = top_k
    /\ q_last.threshold = threshold
    /\ q_last.result = response.result

C20_Inv ==
    /\ SameInputsAsLast => q_ret = q_last.ret
    /\ q_calls >= 1 => chat_history = OrEmpty(history_arg)
    /\ history_arg.given => chat_history = history_arg.turns

\* retrieval, generation and the return neither read nor change the history:
\* what they produce is a function of the other variables alone
C20_Step ==
    /\ q_pc # "idle" => (chat_history' = chat_history /\ history_arg' = history_arg)
    /\ q_pc = "retrieve" =>
          filtered_docs' = ThresholdFilter(similarity_search_with_score(top_k),
                                           threshold)
    /\ q_pc = "generate" => response'.source_documents = filtered_docs
    /\ q_pc = "respond" => q_ret' = QueryLogResult(response)

\* C20: the result of query_log does not depend on chat_history: two calls
\* with the same k, threshold, collection and chat-model output but different
\* histories (of any length, also longer than CHAT_HISTORY_LIMIT) return the
\* same answer and citations, and the history is neither truncated nor passed
\* to retrieval or generation.
C20_HistoryIgnored == []C20_Inv /\ [][C20_Step]_vars

\* two calls alike but for the history, the second with a history longer
\* than CHAT_HISTORY_LIMIT that is still whole, both returning citations
C20_Witness ==
    /\ SameInputsAsLast
    /\ ~q_last.history.given
    /\ history_arg.given
    /\ Len(chat_history) > CHAT_HISTORY_LIMIT
    /\ q_ret[2] # <<>>
    /\ q_ret = q_last.ret

====
